---- MODULE Spec2Model ----
(***************************************************************************)
(* Adaptive multi-resolution monitoring pipeline of echart-cpu:            *)
(*   utils/monitorData.ts      resolution policy, series synthesizer       *)
(*   services/monitorService.ts  window cache and getData                  *)
(*   components/MonitorChart.tsx debounce, loadData, buckets, sampler      *)
(*                                                                         *)
(* A JavaScript number holding milliseconds is written <<s, ms>>, the      *)
(* value s*1000 + ms with 0 <= ms < 1000: Date.now() and the 365-day       *)
(* threshold do not fit TLC's 32-bit integers, the pair keeps them exact.  *)
(***************************************************************************)
EXTENDS Integers, Sequences, FiniteSets, TLC

----------------------------------------------------------------------------
(* Millisecond arithmetic *)

Ms(s, m) == <<s, m>>

Zero == Ms(0, 0)

\* The value of an absent argument (undefined).
Undefined == <<>>

TAdd(a, b) ==
  LET m == a[2] + b[2] IN Ms(a[1] + b[1] + (m \div 1000), m % 1000)

TSub(a, b) ==
  LET m == a[2] - b[2] IN Ms(a[1] - b[1] + (m \div 1000), m % 1000)

TLess(a, b) == a[1] < b[1] \/ (a[1] = b[1] /\ a[2] < b[2])

TGeq(a, b) == ~TLess(a, b)

\* x / d >= 1 for a positive d (the quotient of a division reaches 1 exactly
\* when the dividend reaches the divisor).
RatioAtLeastOne(x, d) == TGeq(x, d)

\* Math.ceil(x / d) for d a whole number of seconds.
CeilDiv(x, d) ==
  (x[1] \div d[1]) + (IF (x[1] % d[1]) # 0 \/ x[2] # 0 THEN 1 ELSE 0)

\* JavaScript truthiness of an optional number: undefined and 0 are falsy.
Truthy(x) == x # Undefined /\ x # Zero

Min(a, b) == IF a < b THEN a ELSE b

Max(a, b) == IF a > b THEN a ELSE b

----------------------------------------------------------------------------
(* utils/monitorData.ts *)

Resolution == {"1d", "1h", "1m", "30s"}

RESOLUTION_INTERVALS ==
  [r \in Resolution |->
     CASE r = "1d"  -> Ms(24 * 60 * 60, 0)
       [] r = "1h"  -> Ms(60 * 60, 0)
       [] r = "1m"  -> Ms(60, 0)
       [] r = "30s" -> Ms(30, 0)]

YEAR_MS == Ms(365 * 24 * 60 * 60, 0)

MONTH_MS == Ms(30 * 24 * 60 * 60, 0)

DAY_MS == Ms(24 * 60 * 60, 0)

HOUR_MS == Ms(60 * 60, 0)

\* The policy with every threshold exclusive, for comparison.
getResolutionExclusive(start, end) ==
  LET duration == TSub(end, start) IN
  IF TLess(YEAR_MS, duration) THEN "1d"
  ELSE IF TLess(MONTH_MS, duration) THEN "1h"
  ELSE IF TLess(HOUR_MS, duration) THEN "1m"
  ELSE "30s"

getResolutionForRange(start, end) ==
  LET duration == TSub(end, start) IN
  IF RatioAtLeastOne(duration, YEAR_MS) THEN "1d"
  ELSE IF RatioAtLeastOne(duration, MONTH_MS) THEN "1h"
  ELSE IF RatioAtLeastOne(duration, DAY_MS) THEN "1m"
  ELSE IF RatioAtLeastOne(duration, HOUR_MS) THEN "1m"
  ELSE "30s"

\* A count that never exceeds the days of a year, for comparison.
getPointCountWithinYear(start, end, resolution) ==
  Min(CeilDiv(TSub(end, start), RESOLUTION_INTERVALS[resolution]), 365)

getPointCount(start, end, resolution) ==
  CeilDiv(TSub(end, start), RESOLUTION_INTERVALS[resolution])

MAX_POINTS_CAP == 10000

DefaultMetricList == <<"cpu_1", "cpu_2", "cpu_3", "gpu_1", "gpu_2", "memory">>

\* A MetricsResponse: step, the number of points, the window the points
\* span and the metric names each point carries.  by and src tell the
\* objects apart (the values are random): by is the Date.now() of the
\* getData call that made the object (Zero for initial data), src the path
\* that made it.
Series(by, src, step, n, startTime, endTime, names) ==
  [by |-> by, src |-> src, step |-> step, n |-> n,
   startTime |-> startTime, endTime |-> endTime, names |-> names]

Null == Series(Zero, "null", "none", 0, Zero, Zero, <<>>)

\* An absent metrics argument (an empty list is a list, and truthy).
UndefinedList == <<"undefined">>

generateDataByResolution(resolution, start, end, names, clock, by, src) ==
  LET defaultMetrics ==
        IF names = UndefinedList THEN DefaultMetricList ELSE names
      defaultStart   == TSub(clock, YEAR_MS)
      startTime      == IF Truthy(start) THEN start ELSE defaultStart
      endTime        == IF Truthy(end) THEN end ELSE clock
      pointCount     == Min(getPointCount(startTime, endTime, resolution),
                            MAX_POINTS_CAP)
  IN Series(by, src, resolution, Max(pointCount, 0), startTime, endTime,
            defaultMetrics)

\* Initial data of hourly resolution, for comparison.
generateInitialDataHourly(clock) ==
  generateDataByResolution("1h", TSub(clock, YEAR_MS), clock, UndefinedList,
                           clock, Zero, "initial")

generateInitialData(clock) ==
  generateDataByResolution("1d", TSub(clock, YEAR_MS), clock, UndefinedList,
                           clock, Zero, "initial")

\* fetchMetrics resolves after 100 + Math.random() * 200 ms.
FETCH_DELAY_MIN == 100

FETCH_DELAY_SPREAD == 200

----------------------------------------------------------------------------
(* services/monitorService.ts *)

CACHE_DURATION == Ms(5 * 60, 0)

\* The metric names used, in the order of their UTF-16 code units, which
\* is the order Array.prototype.sort() compares strings by: the names of the
\* application, the empty name and a name that contains a comma.
CodeUnitOrder ==
  <<"", "cpu_1", "cpu_1,gpu_2", "cpu_2", "cpu_3", "disk", "gpu_1", "gpu_2",
    "memory", "network">>

CodeUnitRank(name) ==
  CHOOSE i \in 1..Len(CodeUnitOrder) : CodeUnitOrder[i] = name

StrLess(a, b) == CodeUnitRank(a) < CodeUnitRank(b)

RECURSIVE Insert(_, _)
Insert(x, sorted) ==
  IF sorted = <<>> THEN <<x>>
  ELSE IF StrLess(x, Head(sorted)) THEN <<x>> \o sorted
  ELSE <<Head(sorted)>> \o Insert(x, Tail(sorted))

\* Array.prototype.sort() without a comparator.
RECURSIVE Sort(_)
Sort(list) ==
  IF list = <<>> THEN <<>> ELSE Insert(Head(list), Sort(Tail(list)))

\* Array.prototype.join(sep).
RECURSIVE Join(_, _)
Join(list, sep) ==
  IF list = <<>> THEN ""
  ELSE IF Len(list) = 1 THEN Head(list)
  ELSE Head(list) \o sep \o Join(Tail(list), sep)

Pad3(m) ==
  IF m < 10 THEN "00" \o ToString(m)
  ELSE IF m < 100 THEN "0" \o ToString(m)
  ELSE ToString(m)

\* The decimal text a template literal gives an integral number.
NumToString(x) ==
  IF x[1] >= 0
  THEN (IF x[1] = 0 THEN ToString(x[2]) ELSE ToString(x[1]) \o Pad3(x[2]))
  ELSE LET a == TSub(Zero, x) IN
       "-" \o (IF a[1] = 0 THEN ToString(a[2])
               ELSE ToString(a[1]) \o Pad3(a[2]))

\* The key with the metric names joined in the order given, for comparison.
generateCacheKeyUnsorted(start, end, resolution, names) ==
  NumToString(start) \o "-" \o NumToString(end) \o "-" \o resolution
    \o "-" \o Join(names, ",")

generateCacheKey(start, end, resolution, names) ==
  NumToString(start) \o "-" \o NumToString(end) \o "-" \o resolution
    \o "-" \o Join(Sort(names), ",")


----------------------------------------------------------------------------
(* State *)

VARIABLES
  now,              \* Date.now()
  elapsedTicks,     \* clock steps taken so far (bounds the run)
  elapsedJumps,     \* idle periods taken so far (bounds the run)
  cache,            \* MonitorService.cache: key -> MetricsResponse
  cacheExpiry,      \* MonitorService.cacheExpiry: key -> time
  pending,          \* the getData activations awaiting fetchMetrics
  lastReturn,       \* the getData activation that returned last
  metrics,          \* MonitorChart: the metrics array (useState)
  loading,          \* MonitorChart: loading
  visibleMetrics,   \* MonitorChart: visibleMetrics
  lowResData,       \* MonitorChart: the coarse bucket
  highResData,      \* MonitorChart: the fine bucket
  activeResolution, \* MonitorChart: activeResolution
  mounted,          \* the mount effects have run (first paint)
  debounceTimer,    \* debounceTimerRef and the callback the timer holds
  lastZoom,         \* the last dataZoom event that asked for a window
  probe             \* one application of a pure function to chosen inputs

vars ==
  <<now, elapsedTicks, elapsedJumps, cache, cacheExpiry, pending, lastReturn,
    metrics, loading, visibleMetrics, lowResData, highResData,
    activeResolution, mounted, debounceTimer, lastZoom, probe>>

appVars ==
  <<now, elapsedTicks, elapsedJumps, cache, cacheExpiry, pending, lastReturn,
    metrics, loading, visibleMetrics, lowResData, highResData,
    activeResolution, mounted, debounceTimer, lastZoom>>

serviceVars == <<cache, cacheExpiry>>

callVars == <<pending, lastReturn>>

bucketVars == <<lowResData, highResData, activeResolution>>

clockVars == <<now, elapsedTicks, elapsedJumps>>

----------------------------------------------------------------------------
(* Bounds and the environment's inputs *)

MaxTicks == 8

MaxJumps == 1

\* The clock advances in steps of TickMs, which divides the debounce delay
\* and both fetch delay constants; an idle period is one of IdleMs, chosen
\* so that a window fetched before it and asked for again right after it
\* is looked up 5 minutes, or 5 minutes and 1 ms, after its stamp.
TickMs == FETCH_DELAY_MIN

IdleMs == {Ms(299, 700), Ms(299, 701)}

\* Date.now() when the page is opened.
Now0 == Ms(1700000000, 0)

\* App.tsx: the metric list of the fourth chart.
InitialMetrics == <<"memory", "disk">>

\* The extent of the time axis, when the chart reports one.
AxisMin == TSub(Now0, YEAR_MS)

AxisMax == Now0

\* An absent percentage.
NoPct == 0 - 1

\* A dataZoom event: batch or single, a batch entry with numeric
\* startValue/endValue or with percentages, and what getOption() reports
\* for xAxis[0].min/max.
ZoomParams(batch, startValue, endValue, start, end, axisMin, axisMax) ==
  [batch |-> batch, startValue |-> startValue, endValue |-> endValue,
   start |-> start, end |-> end, axisMin |-> axisMin, axisMax |-> axisMax]

AbsZoom(s, e) ==
  ZoomParams(TRUE, s, e, NoPct, NoPct, Undefined, Undefined)

ZoomEvents ==
  { AbsZoom(TSub(Now0, Ms(600, 0)), Now0),          \* last 10 minutes
    AbsZoom(TSub(Now0, YEAR_MS), Now0),             \* last 365 days
    AbsZoom(Zero, Now0),                            \* from the epoch
    ZoomParams(TRUE, Undefined, Undefined, 50, 100, AxisMin, AxisMax),
    ZoomParams(TRUE, Undefined, Undefined, 50, 100, Undefined, Undefined),
    ZoomParams(FALSE, Undefined, Undefined, 50, 100, AxisMin, AxisMax),
    ZoomParams(FALSE, Undefined, Undefined, 0, 50, AxisMin, AxisMax),
    ZoomParams(FALSE, Undefined, Undefined, 50, 100, Undefined, Undefined),
    ZoomParams(FALSE, Undefined, Undefined, NoPct, NoPct, AxisMin, AxisMax) }

----------------------------------------------------------------------------
(* components/MonitorChart.tsx: the dataZoom handler and debounce *)

DEBOUNCE_DELAY == 200

\* x * pct / 100.
MulPct(x, pct) ==
  LET r == (((x[1] % 100) * 1000 + x[2]) * pct) \div 100 IN
  TAdd(Ms((x[1] \div 100) * pct, 0), Ms(r \div 1000, r % 1000))

PctTruthy(pct) == pct # NoPct /\ pct # 0

Dropped == [ok |-> FALSE, startValue |-> Undefined, endValue |-> Undefined]

Resolved(s, e) == [ok |-> TRUE, startValue |-> s, endValue |-> e]

\* A conversion that takes the last year for an axis extent it does not
\* know, for comparison.
FromPercentDefaultAxis(p) ==
  LET axisMin    == IF Truthy(p.axisMin) THEN p.axisMin ELSE TSub(now, YEAR_MS)
      axisMax    == IF Truthy(p.axisMax) THEN p.axisMax ELSE now
      totalRange == TSub(axisMax, axisMin)
  IN Resolved(TAdd(axisMin, MulPct(totalRange, p.start)),
              TAdd(axisMin, MulPct(totalRange, p.end)))

FromPercent(p) ==
  IF Truthy(p.axisMin) /\ Truthy(p.axisMax)
  THEN LET totalRange == TSub(p.axisMax, p.axisMin) IN
       Resolved(TAdd(p.axisMin, MulPct(totalRange, p.start)),
                TAdd(p.axisMin, MulPct(totalRange, p.end)))
  ELSE Dropped

\* The window the handler hands to debounce(), or Dropped when it returns
\* before reaching debounce().
ResolveZoom(p) ==
  IF p.batch
  THEN (IF p.startValue # Undefined
        THEN Resolved(p.startValue, p.endValue)
        ELSE FromPercent(p))
  ELSE IF PctTruthy(p.start) /\ PctTruthy(p.end)
  THEN FromPercent(p)
  ELSE Dropped

NoTimer ==
  [pending |-> FALSE, due |-> Zero, startValue |-> Zero, endValue |-> Zero]

\* A debounce that leaves a pending timer as it is, for comparison.
debounceKeepPending(s, e, clock) ==
  IF debounceTimer.pending
  THEN debounceTimer
  ELSE [pending |-> TRUE, due |-> TAdd(clock, Ms(0, DEBOUNCE_DELAY)),
        startValue |-> s, endValue |-> e]

\* debounce(func, delay): the pending timer is replaced.
debounce(s, e, clock) ==
  [pending |-> TRUE, due |-> TAdd(clock, Ms(0, DEBOUNCE_DELAY)),
   startValue |-> s, endValue |-> e]

\* The window a zoom event asks for: numeric batch bounds, or percentages
\* of a known axis extent.  (The handler's own reading is ResolveZoom.)
RequestedWindow(p) ==
  IF p.batch /\ p.startValue # Undefined
  THEN Resolved(p.startValue, p.endValue)
  ELSE IF p.start # NoPct /\ p.end # NoPct
          /\ p.axisMin # Undefined /\ p.axisMax # Undefined
  THEN LET totalRange == TSub(p.axisMax, p.axisMin) IN
       Resolved(TAdd(p.axisMin, MulPct(totalRange, p.start)),
                TAdd(p.axisMin, MulPct(totalRange, p.end)))
  ELSE Dropped

\* Whether one of the bounds the event carries, timestamps or percentages,
\* is 0.
HasZeroBound(p) ==
  IF p.batch /\ p.startValue # Undefined
  THEN p.startValue = Zero \/ p.endValue = Zero
  ELSE p.start = 0 \/ p.end = 0

\* The last zoom event that asked for a window: when it arrived, the
\* window, whether it carried a bound of 0, the number of getData calls
\* issued since, and the window of the last of them; and whether an event
\* that asked for no window has arrived after it.
NoZoom ==
  [seen |-> FALSE, time |-> Zero, startValue |-> Zero, endValue |-> Zero,
   zero |-> FALSE, issued |-> 0, calledStart |-> Zero, calledEnd |-> Zero,
   unresolved |-> FALSE]

\* Ticks a zoom event needs until its getData call has returned.
SettleTicks ==
  (DEBOUNCE_DELAY + FETCH_DELAY_MIN + FETCH_DELAY_SPREAD) \div TickMs

\* The dataZoom handler, for an event that arrives early enough for its
\* getData call to return within limit ticks.
DataZoomWithin(p, limit) ==
  /\ mounted
  /\ elapsedTicks + SettleTicks <= limit
  /\ LET r == ResolveZoom(p) IN
     IF r.ok
     THEN debounceTimer' = debounce(r.startValue, r.endValue, now)
     ELSE UNCHANGED debounceTimer
  /\ LET w == RequestedWindow(p) IN
     IF w.ok
     THEN lastZoom' = [NoZoom EXCEPT !.seen = TRUE, !.time = now,
                                     !.startValue = w.startValue,
                                     !.endValue = w.endValue,
                                     !.zero = HasZeroBound(p)]
     ELSE lastZoom' = [lastZoom EXCEPT !.unresolved = TRUE]
  /\ UNCHANGED <<clockVars, serviceVars, callVars, metrics, loading,
                 visibleMetrics, bucketVars, mounted>>

DataZoom(p) == DataZoomWithin(p, MaxTicks)

----------------------------------------------------------------------------
(* MonitorService.getData and MonitorChart.loadData *)

\* A cache test that never hits, for comparison.
CacheNeverHit(cacheKey, clock) == FALSE

\* A cache test that still hits when exactly CACHE_DURATION has passed, for
\* comparison.
CacheHitInclusive(cacheKey, clock) ==
  /\ cacheKey \in DOMAIN cache
  /\ ~TLess(CACHE_DURATION, TSub(clock, cacheExpiry[cacheKey]))

\* The cache test of getData.
CacheHit(cacheKey, clock) ==
  /\ cacheKey \in DOMAIN cache
  /\ TLess(TSub(clock, cacheExpiry[cacheKey]), CACHE_DURATION)

\* One getData activation: its arguments, its locals, how it returned
\* ("pending" while it awaits fetchMetrics) and what it returned.
Call(start, end, names, resolution, cacheKey, clock, path, result) ==
  [start |-> start, end |-> end, names |-> names, resolution |-> resolution,
   cacheKey |-> cacheKey, now |-> clock, path |-> path, result |-> result]

NoCall == Call(Zero, Zero, <<>>, "none", "", Zero, "none", Null)

Returned(c, path, result) == [c EXCEPT !.path = path, !.result = result]

\* State updates that are skipped for a series of another window than the
\* one getData was last called for, for comparison.
ApplyDataIfLatest(data) ==
  IF data.startTime = lastZoom.calledStart /\ data.endTime = lastZoom.calledEnd
  THEN IF data.step = "1d" \/ data.step = "1h"
       THEN /\ lowResData' = data
            /\ highResData' = Null
            /\ activeResolution' = data.step
       ELSE /\ highResData' = data
            /\ lowResData' = Null
            /\ activeResolution' = data.step
  ELSE UNCHANGED bucketVars

\* State updates that leave the other bucket as it is, for comparison.
ApplyDataKeepOther(data) ==
  IF data.step = "1d" \/ data.step = "1h"
  THEN /\ lowResData' = data
       /\ activeResolution' = data.step
       /\ UNCHANGED highResData
  ELSE /\ highResData' = data
       /\ activeResolution' = data.step
       /\ UNCHANGED lowResData

\* The state updates of loadData once getData has returned data.
ApplyData(data) ==
  IF data.step = "1d" \/ data.step = "1h"
  THEN /\ lowResData' = data
       /\ highResData' = Null
       /\ activeResolution' = data.step
  ELSE /\ highResData' = data
       /\ lowResData' = Null
       /\ activeResolution' = data.step

\* What getData returns on a cache hit.
HitResult(cacheKey) == cache[cacheKey]

\* loadData(start, end) up to the await of fetchMetrics: a cache hit runs
\* to the end, a miss leaves the call pending.
LoadData(start, end) ==
  LET resolution == getResolutionForRange(start, end)
      cacheKey   == generateCacheKey(start, end, resolution, metrics)
      c          == Call(start, end, metrics, resolution, cacheKey, now,
                         "pending", Null)
  IN /\ metrics' = Sort(metrics)
     /\ IF CacheHit(cacheKey, now)
        THEN /\ lastReturn' = Returned(c, "hit", HitResult(cacheKey))
             /\ ApplyData(HitResult(cacheKey))
             /\ loading' = FALSE
             /\ UNCHANGED pending
        ELSE /\ pending' = pending \cup {c}
             /\ loading' = TRUE
             /\ UNCHANGED <<lastReturn, bucketVars>>

\* The debounce timer expires and runs its callback.
DebounceFire ==
  /\ debounceTimer.pending
  /\ TGeq(now, debounceTimer.due)
  /\ debounceTimer' = NoTimer
  /\ IF Truthy(debounceTimer.startValue) /\ Truthy(debounceTimer.endValue)
     THEN /\ LoadData(debounceTimer.startValue, debounceTimer.endValue)
          /\ lastZoom' = [lastZoom EXCEPT
                            !.issued = @ + 1,
                            !.calledStart = debounceTimer.startValue,
                            !.calledEnd = debounceTimer.endValue]
     ELSE UNCHANGED <<callVars, metrics, loading, bucketVars, lastZoom>>
  /\ UNCHANGED <<clockVars, serviceVars, visibleMetrics, mounted>>

\* fetchMetrics may settle once its timer has run.
FetchSettles(c) ==
  /\ c \in pending
  /\ TGeq(TSub(now, c.now), Ms(0, FETCH_DELAY_MIN))

\* The time getData stamps a stored entry with.
ExpiryStamp(c) == c.now

\* fetchMetrics resolves: getData stores the data, loadData applies it.
FetchResolve(c) ==
  /\ FetchSettles(c)
  /\ LET data == generateDataByResolution(c.resolution, c.start, c.end,
                                          metrics, now, c.now, "remote")
     IN /\ cache' = (c.cacheKey :> data) @@ cache
        /\ cacheExpiry' = (c.cacheKey :> ExpiryStamp(c)) @@ cacheExpiry
        /\ lastReturn' = Returned(c, "remote", data)
        /\ ApplyData(data)
  /\ pending' = pending \ {c}
  /\ loading' = FALSE
  /\ UNCHANGED <<clockVars, metrics, visibleMetrics, mounted, debounceTimer,
                 lastZoom>>

\* A catch block that throws the error on, for comparison.
getDataRethrow(c) == [threw |-> TRUE, data |-> Null]

\* What the catch block of getData leaves in the cache: it stores nothing.
StoreAfterReject(c, data) == [cache |-> cache, cacheExpiry |-> cacheExpiry]

\* The catch block of getData: the error is logged and synthesized data
\* for the call's resolution, window and metrics is returned in its place.
getDataCatch(c) ==
  [threw |-> FALSE,
   data  |-> generateDataByResolution(c.resolution, c.start, c.end, metrics,
                                      now, c.now, "fallback")]

\* fetchMetrics rejects: getData returns from its catch block, and loadData
\* applies the data (or, had getData thrown, logs the error in its own
\* catch block).
FetchReject(c) ==
  /\ FetchSettles(c)
  /\ LET r == getDataCatch(c) IN
        /\ cache' = StoreAfterReject(c, r.data).cache
        /\ cacheExpiry' = StoreAfterReject(c, r.data).cacheExpiry
        /\ IF r.threw
           THEN /\ lastReturn' = Returned(c, "error", Null)
                /\ UNCHANGED bucketVars
           ELSE /\ lastReturn' = Returned(c, "fallback", r.data)
                /\ ApplyData(r.data)
  /\ pending' = pending \ {c}
  /\ loading' = FALSE
  /\ UNCHANGED <<clockVars, metrics, visibleMetrics, mounted, debounceTimer,
                 lastZoom>>

----------------------------------------------------------------------------
(* MonitorChart: mount, reset, theme, legend *)

\* The state the mount effects, handleResetZoom and the theme effect leave:
\* fresh initial data in the coarse bucket, labelled '1h'.
ShowInitialData ==
  /\ lowResData' = generateInitialData(now)
  /\ highResData' = Null
  /\ activeResolution' = "1h"

\* The effects of the first render, in order: the chart is created, the
\* initial data is loaded, and the theme effect (which finds the chart
\* created) loads it again and labels it '1h'.
Mount ==
  /\ ~mounted
  /\ mounted' = TRUE
  /\ ShowInitialData
  /\ UNCHANGED <<clockVars, serviceVars, callVars, metrics, loading,
                 visibleMetrics, debounceTimer, lastZoom>>

\* The reset button is disabled while loading.
HandleResetZoom ==
  /\ mounted
  /\ ~loading
  /\ ShowInitialData
  /\ UNCHANGED <<clockVars, serviceVars, callVars, metrics, loading,
                 visibleMetrics, mounted, debounceTimer, lastZoom>>

ThemeChange ==
  /\ mounted
  /\ ShowInitialData
  /\ UNCHANGED <<clockVars, serviceVars, callVars, metrics, loading,
                 visibleMetrics, mounted, debounceTimer, lastZoom>>

\* The opacity of the coarse series and of the fine series in the chart
\* option; a bucket that is null contributes no series at all.
LowResOpacity == IF activeResolution = "1h" THEN 1 ELSE 0

HighResOpacity == IF activeResolution # "1h" THEN 1 ELSE 0

\* A handler that also narrows the list of fetched metrics, for comparison.
LegendNarrowsMetrics(selected) ==
  /\ mounted
  /\ visibleMetrics' = SelectSeq(metrics, LAMBDA m : m \in selected)
  /\ metrics' = SelectSeq(metrics, LAMBDA m : m \in selected)
  /\ UNCHANGED <<clockVars, serviceVars, callVars, loading, bucketVars,
                 mounted, debounceTimer, lastZoom>>

\* The legend lists metrics.map(toUpperCase); the handler keeps the selected
\* names, lower-cased, in the legend's order.
LegendSelectChanged(selected) ==
  /\ mounted
  /\ visibleMetrics' = SelectSeq(metrics, LAMBDA m : m \in selected)
  /\ UNCHANGED <<clockVars, serviceVars, callVars, metrics, loading,
                 bucketVars, mounted, debounceTimer, lastZoom>>

----------------------------------------------------------------------------
(* MonitorService.clearCache *)

Without(f, k) == [x \in DOMAIN f \ {k} |-> f[x]]

ClearCache(start, end, resolution, names) ==
  /\ IF /\ Truthy(start)
        /\ Truthy(end)
        /\ resolution # ""
        /\ names # UndefinedList
     THEN LET cacheKey == generateCacheKey(start, end, resolution, names) IN
          /\ cache' = Without(cache, cacheKey)
          /\ cacheExpiry' = Without(cacheExpiry, cacheKey)
     ELSE /\ cache' = <<>>
          /\ cacheExpiry' = <<>>
  /\ UNCHANGED <<clockVars, callVars, metrics, loading, visibleMetrics,
                 bucketVars, mounted, debounceTimer, lastZoom>>

----------------------------------------------------------------------------
(* The clock *)

\* Time passes: a due debounce timer fires first, and a fetch settles
\* before FETCH_DELAY_MIN + FETCH_DELAY_SPREAD ms have passed.
Advance(d) ==
  /\ now' = TAdd(now, d)
  /\ debounceTimer.pending => TGeq(debounceTimer.due, now')
  /\ \A c \in pending :
       TLess(TSub(now', c.now), Ms(0, FETCH_DELAY_MIN + FETCH_DELAY_SPREAD))

TickWithin(limit) ==
  /\ elapsedTicks < limit
  /\ Advance(Ms(0, TickMs))
  /\ elapsedTicks' = elapsedTicks + 1
  /\ UNCHANGED <<elapsedJumps, serviceVars, callVars, metrics, loading,
                 visibleMetrics, bucketVars, mounted, debounceTimer, lastZoom>>

Tick == TickWithin(MaxTicks)

\* An idle period: nothing is pending, and the cache holds an entry that
\* ages meanwhile.
Idle(d) ==
  /\ elapsedJumps < MaxJumps
  /\ cache # <<>>
  /\ Advance(d)
  /\ elapsedJumps' = elapsedJumps + 1
  /\ UNCHANGED <<elapsedTicks, serviceVars, callVars, metrics, loading,
                 visibleMetrics, bucketVars, mounted, debounceTimer, lastZoom>>

----------------------------------------------------------------------------
(* components/MonitorChart.tsx: the render sampler *)

\* Math.ceil(a / b) for positive integers.
CeilInt(a, b) == (a + b - 1) \div b

\* sampleData(data, maxPoints): data is a sequence of <<t, value>> pairs.
sampleData(data, maxPoints) ==
  IF Len(data) <= maxPoints
  THEN data
  ELSE LET step    == CeilInt(Len(data), maxPoints)
           count   == ((Len(data) - 1) \div step) + 1
           sampled == [k \in 1..count |-> data[(k - 1) * step + 1]]
       IN IF sampled[count][1] # data[Len(data)][1]
          THEN Append(sampled, data[Len(data)])
          ELSE sampled

\* maxPoints = Math.min(1000, Math.max(200, chartWidth)).
MaxPointsFor(chartWidth) == Min(1000, Max(200, chartWidth))

----------------------------------------------------------------------------
(* The pure functions, applied to chosen inputs *)

NoProbe ==
  [kind |-> "none", start |-> Zero, end |-> Zero, resolution |-> "none",
   listA |-> <<>>, listB |-> <<>>, keyA |-> "", keyB |-> "",
   data |-> <<>>, maxPoints |-> 0, out |-> <<>>, at |-> Zero,
   series |-> Null, startB |-> Zero, endB |-> Zero, resolutionB |-> "none"]

\* Durations around every threshold of the resolution policy.
Thresholds == {Zero, Ms(600, 0), HOUR_MS, DAY_MS, MONTH_MS, YEAR_MS,
               TAdd(YEAR_MS, YEAR_MS)}

ProbeDurations ==
  UNION { {TSub(d, Ms(0, 1)), d, TAdd(d, Ms(0, 1))} : d \in Thresholds }
    \ {TSub(Zero, Ms(0, 1))}

ProbeStarts == {Zero, Ms(0, 1), Ms(86400, 0), TSub(Now0, YEAR_MS), Now0}

\* The inputs of the resolution policy.
ResolutionInputs ==
  { [NoProbe EXCEPT !.kind = "resolution", !.start = start,
                    !.end = TAdd(start, duration)] :
      start \in ProbeStarts, duration \in ProbeDurations }

ResolutionProbe ==
  /\ probe.kind = "resolution"
  /\ probe.resolution = "none"
  /\ probe' = [probe EXCEPT
                 !.resolution = getResolutionForRange(probe.start, probe.end)]
  /\ UNCHANGED appVars

MaxListLen == 3

ProbeNames == {"memory", "disk", "cpu_1", "gpu_2"}

ProbeLists == UNION {[1..n -> ProbeNames] : n \in 0..MaxListLen}

Rearrangements(n) ==
  {f \in [1..n -> 1..n] : \A i, j \in 1..n : f[i] = f[j] => i = j}

KeyStarts == {Zero, TSub(Now0, Ms(600, 0))}

\* An input of the cache key: a metric list and the rearrangement f of it.
KeyInput(start, resolution, a, f) ==
  [NoProbe EXCEPT !.kind = "key", !.start = start, !.end = Now0,
                  !.resolution = resolution, !.listA = a,
                  !.listB = [i \in 1..Len(a) |-> a[f[i]]]]

KeyProbe ==
  /\ probe.kind = "key"
  /\ probe.keyA = ""
  /\ probe' = [probe EXCEPT
                 !.keyA = generateCacheKey(probe.start, probe.end,
                                           probe.resolution, probe.listA),
                 !.keyB = generateCacheKey(probe.start, probe.end,
                                           probe.resolution, probe.listB)]
  /\ UNCHANGED appVars

\* A series of len points with ascending timestamps.
SampleInput(len) == [i \in 1..len |-> <<i * 30, i % 101>>]

SampleLengths == {1, 2, 199, 200, 201, 399, 400, 401, 999, 1000, 1001, 2001}

ChartWidths == {0, 200, 201, 500, 800, 999, 1000, 1920}

\* The inputs of the sampler.
SampleInputs ==
  { [NoProbe EXCEPT !.kind = "sample", !.data = SampleInput(len),
                    !.maxPoints = MaxPointsFor(chartWidth)] :
      len \in SampleLengths, chartWidth \in ChartWidths }

SampleProbe ==
  /\ probe.kind = "sample"
  /\ probe.out = <<>>
  /\ probe' = [probe EXCEPT !.out = sampleData(probe.data, probe.maxPoints)]
  /\ UNCHANGED appVars

\* Metric lists of any strings: names of the application, the empty name
\* and a name with a comma in it.
AnyNames == {"cpu_1", "gpu_2", "cpu_1,gpu_2", ""}

AnyLists == UNION {[1..n -> AnyNames] : n \in 0..2}

\* An input of the cache key: two requests.
KeyPairInput(startB, endB, resolutionB, a, b) ==
  [NoProbe EXCEPT !.kind = "keys", !.start = Ms(0, 1), !.end = Ms(0, 112),
                  !.resolution = "30s", !.listA = a,
                  !.startB = startB, !.endB = endB,
                  !.resolutionB = resolutionB, !.listB = b]

KeyPairProbe ==
  /\ probe.kind = "keys"
  /\ probe.keyA = ""
  /\ probe' = [probe EXCEPT
                 !.keyA = generateCacheKey(probe.start, probe.end,
                                           probe.resolution, probe.listA),
                 !.keyB = generateCacheKey(probe.startB, probe.endB,
                                           probe.resolutionB, probe.listB)]
  /\ UNCHANGED appVars

\* Windows for the synthesizer: the last 10 minutes, 1, 2 and 5 years, a
\* window of 1 ms and an empty one, and windows that start at the epoch.
ProbeWindows ==
  { <<TSub(Now0, Ms(600, 0)), Now0>>,
    <<TSub(Now0, YEAR_MS), Now0>>,
    <<TSub(Now0, TAdd(YEAR_MS, YEAR_MS)), Now0>>,
    <<TSub(Now0, Ms(5 * 365 * 86400, 0)), Now0>>,
    <<TSub(Now0, Ms(0, 1)), Now0>>,
    <<Now0, Now0>>,
    <<Ms(0, 1), Ms(600, 1)>>,
    <<Zero, Ms(600, 0)>>,
    <<Zero, Now0>> }

\* The inputs of the synthesizer: a resolution and a window.
SynthInputs ==
  { [NoProbe EXCEPT !.kind = "synth", !.resolution = resolution,
                    !.start = w[1], !.end = w[2], !.at = Now0,
                    !.listA = names] :
      resolution \in Resolution, w \in ProbeWindows,
      names \in {InitialMetrics, UndefinedList} }

SynthProbe ==
  /\ probe.kind = "synth"
  /\ probe.series = Null
  /\ probe' = [probe EXCEPT
                 !.series = generateDataByResolution(
                              probe.resolution, probe.start, probe.end,
                              probe.listA, probe.at, Zero, "synth")]
  /\ UNCHANGED appVars

\* The inputs of the fetch path of getData: a window and the time at which
\* fetchMetrics synthesizes the data.
PipelineInputs ==
  { [NoProbe EXCEPT !.kind = "pipeline", !.start = w[1], !.end = w[2],
                    !.at = TAdd(Now0, Ms(0, delay)),
                    !.listA = InitialMetrics] :
      w \in ProbeWindows,
      delay \in {FETCH_DELAY_MIN, FETCH_DELAY_MIN + FETCH_DELAY_SPREAD - 1} }

\* getData on a miss with a fetch that succeeds: the resolution of the
\* policy, then the data fetchMetrics returns for it.
PipelineProbe ==
  /\ probe.kind = "pipeline"
  /\ probe.series = Null
  /\ LET resolution == getResolutionForRange(probe.start, probe.end) IN
     probe' = [probe EXCEPT
                 !.resolution = resolution,
                 !.series = generateDataByResolution(
                              resolution, probe.start, probe.end,
                              probe.listA, probe.at, Now0, "remote")]
  /\ UNCHANGED appVars

----------------------------------------------------------------------------
(* The specification *)

Init ==
  /\ now = Now0
  /\ elapsedTicks = 0
  /\ elapsedJumps = 0
  /\ cache = <<>>
  /\ cacheExpiry = <<>>
  /\ pending = {}
  /\ lastReturn = NoCall
  /\ metrics = InitialMetrics
  /\ loading = FALSE
  /\ visibleMetrics = InitialMetrics
  /\ lowResData = Null
  /\ highResData = Null
  /\ activeResolution = "1h"
  /\ mounted = FALSE
  /\ debounceTimer = NoTimer
  /\ lastZoom = NoZoom
  /\ probe = NoProbe

AppNext ==
  \/ Mount
  \/ \E p \in ZoomEvents : DataZoom(p)
  \/ DebounceFire
  \/ \E c \in pending : FetchResolve(c)
  \/ \E c \in pending : FetchReject(c)
  \/ HandleResetZoom
  \/ ThemeChange
  \/ Tick
  \/ \E d \in IdleMs : Idle(d)

Next == AppNext /\ UNCHANGED probe

Spec == Init /\ [][Next]_vars

PureInit ==
  /\ now = Now0
  /\ elapsedTicks = 0
  /\ elapsedJumps = 0
  /\ cache = <<>>
  /\ cacheExpiry = <<>>
  /\ pending = {}
  /\ lastReturn = NoCall
  /\ metrics = InitialMetrics
  /\ loading = FALSE
  /\ visibleMetrics = InitialMetrics
  /\ lowResData = Null
  /\ highResData = Null
  /\ activeResolution = "1h"
  /\ mounted = FALSE
  /\ debounceTimer = NoTimer
  /\ lastZoom = NoZoom
  /\ \/ probe \in ResolutionInputs
     \/ \E start \in KeyStarts, resolution \in Resolution, a \in ProbeLists :
          \E f \in Rearrangements(Len(a)) :
            probe = KeyInput(start, resolution, a, f)
     \/ probe \in SampleInputs
     \/ \E startB \in {Ms(0, 1), Ms(0, 11)}, endB \in {Ms(0, 112), Ms(0, 12)},
           resolutionB \in {"30s", "1m"}, a \in AnyLists, b \in AnyLists :
          probe = KeyPairInput(startB, endB, resolutionB, a, b)
     \/ probe \in SynthInputs
     \/ probe \in PipelineInputs

PureNext ==
  \/ ResolutionProbe
  \/ KeyProbe
  \/ SampleProbe
  \/ KeyPairProbe
  \/ SynthProbe
  \/ PipelineProbe

PureSpec == PureInit /\ [][PureNext]_vars

\* A longer run of the chart with two windows, in which the legend is
\* toggled and clearCache is called on the service.
LongTicks == MaxTicks + 2

LongEvents ==
  { AbsZoom(TSub(Now0, Ms(600, 0)), Now0),
    AbsZoom(TSub(Now0, YEAR_MS), Now0) }

\* The legend entries selected after a toggle.
LegendSelections == SUBSET {"memory", "disk"}

\* Arguments of clearCache: the key of either window, a key that starts at
\* 0, and no arguments.
ClearArgs ==
  { <<TSub(Now0, Ms(600, 0)), Now0, "30s", <<"disk", "memory">>>>,
    <<TSub(Now0, YEAR_MS), Now0, "1d", <<"disk", "memory">>>>,
    <<Zero, Now0, "1d", <<"disk", "memory">>>>,
    <<Undefined, Undefined, "", UndefinedList>> }

\* A clearCache call, with its arguments kept.
ClearCacheCall(a) ==
  /\ ClearCache(a[1], a[2], a[3], a[4])
  /\ probe' = [NoProbe EXCEPT !.kind = "clear", !.start = a[1], !.end = a[2],
                              !.resolution = a[3], !.listA = a[4]]

LongNext ==
  \/ Mount /\ UNCHANGED probe
  \/ \E p \in LongEvents : DataZoomWithin(p, LongTicks) /\ UNCHANGED probe
  \/ DebounceFire /\ UNCHANGED probe
  \/ \E c \in pending : FetchResolve(c) /\ UNCHANGED probe
  \/ TickWithin(LongTicks) /\ UNCHANGED probe
  \/ \E selected \in LegendSelections :
       LegendSelectChanged(selected) /\ UNCHANGED probe
  \/ \E a \in ClearArgs : ClearCacheCall(a)

LongSpec == Init /\ [][LongNext]_vars

\* The chart under the guarantees of its scheduler: a timer that is due
\* runs its callback, a fetch whose timer has run settles (one way or the
\* other), and time passes.  The zoom events are a batch event of the last
\* 10 minutes and one from the epoch, single events of 50..100 % and of
\* 0..50 % of a known axis, and a single event on an unknown axis.
LiveEvents ==
  { AbsZoom(TSub(Now0, Ms(600, 0)), Now0),
    AbsZoom(Zero, Now0),
    ZoomParams(FALSE, Undefined, Undefined, 50, 100, AxisMin, AxisMax),
    ZoomParams(FALSE, Undefined, Undefined, 0, 50, AxisMin, AxisMax),
    ZoomParams(FALSE, Undefined, Undefined, 50, 100, Undefined, Undefined) }

\* A getData call for the window of the last zoom event was issued when
\* that event's timer expired, it is the call that returned last, and the
\* bucket of its resolution holds what it returned.
LastWindowApplied ==
  /\ lastZoom.issued >= 1
  /\ lastZoom.calledStart = lastZoom.startValue
  /\ lastZoom.calledEnd = lastZoom.endValue
  /\ lastReturn.path \in {"hit", "remote", "fallback"}
  /\ lastReturn.start = lastZoom.startValue
  /\ lastReturn.end = lastZoom.endValue
  /\ lastReturn.now = TAdd(lastZoom.time, Ms(0, DEBOUNCE_DELAY))
  /\ activeResolution = lastReturn.result.step
  /\ IF lastReturn.result.step \in {"1d", "1h"}
     THEN lowResData = lastReturn.result
     ELSE highResData = lastReturn.result

\* A step in which getData may return: it is noted when the result of the
\* call for the last event's window is on display after it.
NoteApplied ==
  probe' = IF LastWindowApplied'
           THEN [NoProbe EXCEPT !.kind = "applied"]
           ELSE probe

FetchCompletes == \E c \in pending : FetchResolve(c) \/ FetchReject(c)

\* A zoom event clears the note.
LiveNext ==
  \/ Mount /\ UNCHANGED probe
  \/ \E p \in LiveEvents : DataZoom(p) /\ probe' = NoProbe
  \/ DebounceFire /\ NoteApplied
  \/ \E c \in pending : FetchResolve(c) /\ NoteApplied
  \/ \E c \in pending : FetchReject(c) /\ NoteApplied
  \/ HandleResetZoom /\ UNCHANGED probe
  \/ Tick /\ UNCHANGED probe

Fairness ==
  /\ WF_vars(DebounceFire /\ NoteApplied)
  /\ WF_vars(FetchCompletes /\ NoteApplied)
  /\ WF_vars(Tick /\ UNCHANGED probe)

LiveSpec == Init /\ [][LiveNext]_vars /\ Fairness

TypeOK ==
  /\ loading \in BOOLEAN
  /\ activeResolution \in Resolution
  /\ DOMAIN cache = DOMAIN cacheExpiry

----------------------------------------------------------------------------
(* The claims of the specification *)

FIVE_MINUTES == Ms(5 * 60, 0)

\* The debounce timer expires in this step and its callback calls loadData,
\* hence getData, for the window it carries.
GetDataStarts ==
  /\ debounceTimer.pending
  /\ ~debounceTimer'.pending
  /\ debounceTimer.startValue # Zero
  /\ debounceTimer.endValue # Zero

\* The cache key of the getData call that starts in this step.
StartedKey ==
  generateCacheKey(debounceTimer.startValue, debounceTimer.endValue,
                   getResolutionForRange(debounceTimer.startValue,
                                         debounceTimer.endValue),
                   metrics)

\* The time since the entry of key k was stamped.
EntryAge(k) == TSub(now, cacheExpiry[k])

\* The call that starts in this step goes to fetchMetrics.
FetchStarts ==
  /\ lastReturn' = lastReturn
  /\ \E c \in pending' \ pending : c.cacheKey = StartedKey /\ c.now = now

Range(list) == {list[i] : i \in DOMAIN list}

\* C1: every window of non-negative duration d gets exactly one resolution:
\* '1d' when d >= 365 days, '1h' when 30 days <= d < 365 days, '1m' when
\* 1 hour <= d < 30 days, '30s' when 0 <= d < 1 hour; a duration on a
\* threshold falls in the coarser class, 1 ms below it in the finer one.
C1_ResolutionThresholds ==
  (probe.kind = "resolution" /\ probe.resolution # "none") =>
    LET d == TSub(probe.end, probe.start) IN
    /\ probe.resolution \in Resolution
    /\ probe.resolution = "1d"  <=> TGeq(d, Ms(365 * 86400, 0))
    /\ probe.resolution = "1h"  <=> /\ TGeq(d, Ms(30 * 86400, 0))
                                    /\ TLess(d, Ms(365 * 86400, 0))
    /\ probe.resolution = "1m"  <=> /\ TGeq(d, Ms(3600, 0))
                                    /\ TLess(d, Ms(30 * 86400, 0))
    /\ probe.resolution = "30s" <=> /\ TGeq(d, Zero)
                                    /\ TLess(d, Ms(3600, 0))

\* A window of exactly 30 days has been given '1h'.
C1_Witness ==
  /\ probe.kind = "resolution"
  /\ TSub(probe.end, probe.start) = Ms(30 * 86400, 0)
  /\ probe.resolution = "1h"

\* C2: a getData call that starts while the entry of its key is valid
\* returns the stored series itself, which a successful fetch put there,
\* and starts no fetch; the cache is left as it was.
C2_HitReturnsStored ==
  [][ (GetDataStarts /\ StartedKey \in DOMAIN cache
         /\ TLess(EntryAge(StartedKey), FIVE_MINUTES)) =>
        /\ lastReturn'.path = "hit"
        /\ lastReturn'.cacheKey = StartedKey
        /\ lastReturn'.now = now
        /\ lastReturn'.result = cache[StartedKey]
        /\ lastReturn'.result.src = "remote"
        /\ pending' = pending
        /\ cache' = cache
        /\ cacheExpiry' = cacheExpiry ]_vars

\* A call has been answered from the cache with a fetched series.
C2_Witness ==
  /\ lastReturn.path = "hit"
  /\ lastReturn.result.src = "remote"
  /\ lastReturn.result = cache[lastReturn.cacheKey]

\* C3: no two fetches for the same cache key are in flight at the same
\* time.
C3_SingleFlight ==
  \A c1, c2 \in pending : c1.cacheKey = c2.cacheKey => c1 = c2

\* C4: when the fetch of a getData call fails, the fallback series it
\* returns is never stored: after the call no cache entry holds that series,
\* and the key of the call has no valid entry, so that the next getData call
\* for the key goes to fetchMetrics again instead of being served from the
\* cache.
C4_FallbackThenRefetch ==
  lastReturn.path = "fallback" =>
    /\ \A k \in DOMAIN cache : cache[k] # lastReturn.result
    /\ ~ /\ lastReturn.cacheKey \in DOMAIN cache
         /\ TLess(EntryAge(lastReturn.cacheKey), FIVE_MINUTES)

\* C5: getData never completes with an error: a call that has returned
\* (from the cache, from the fetch, or from the catch block) returned a
\* series of the resolution the policy gives for its window; the series of
\* the catch block is synthesized for the call's resolution, window and
\* metrics; a call that has not returned yet does so within the fetch
\* delay.
C5_AlwaysReturnsSeries ==
  /\ lastReturn.path \in {"none", "hit", "remote", "fallback"}
  /\ lastReturn.path # "none" =>
       /\ lastReturn.result # Null
       /\ lastReturn.result.step =
            getResolutionForRange(lastReturn.start, lastReturn.end)
  /\ lastReturn.path = "fallback" =>
       /\ lastReturn.result.src = "fallback"
       /\ lastReturn.result.step = lastReturn.resolution
       /\ lastReturn.result.startTime = lastReturn.start
       /\ lastReturn.result.endTime = lastReturn.end
       /\ Range(lastReturn.result.names) = Range(lastReturn.names)
  /\ \A c \in pending : TLess(TSub(now, c.now), Ms(0, 300))

\* A call whose fetch failed has returned a synthesized series.
C5_Witness ==
  /\ lastReturn.path = "fallback"
  /\ lastReturn.result.src = "fallback"
  /\ lastReturn.result.n > 0

\* C6: an entry stamped t0 is served only while now - t0 < 5 minutes: a
\* call that is answered without a fetch found an entry younger than that,
\* and a call that finds an entry of 5 minutes or more goes to fetchMetrics.
C6_ExpiryExclusive ==
  [][ GetDataStarts =>
        /\ (lastReturn' # lastReturn \/ pending' = pending) =>
             /\ StartedKey \in DOMAIN cache
             /\ TLess(EntryAge(StartedKey), FIVE_MINUTES)
        /\ (StartedKey \in DOMAIN cache
              /\ TGeq(EntryAge(StartedKey), FIVE_MINUTES)) => FetchStarts
    ]_vars

\* A call that started exactly 5 minutes after the stamp of its key's entry
\* is awaiting fetchMetrics.
C6_Witness ==
  \E c \in pending :
    /\ c.cacheKey \in DOMAIN cacheExpiry
    /\ TSub(c.now, cacheExpiry[c.cacheKey]) = FIVE_MINUTES

\* C7: after a burst of zoom events that ask for a window, each less than
\* 200 ms after the one before, and 200 ms of silence, exactly one getData
\* call has been issued and it is for the window of the last event: since
\* the last such event at most one call was issued, a call that was issued
\* is for that event's window, and once more than 200 ms have passed the
\* call has been issued.
C7_OneCallForLastWindow ==
  lastZoom.seen =>
    /\ lastZoom.issued <= 1
    /\ lastZoom.issued = 1 =>
         /\ lastZoom.calledStart = lastZoom.startValue
         /\ lastZoom.calledEnd = lastZoom.endValue
    /\ TLess(TAdd(lastZoom.time, Ms(0, 200)), now) => lastZoom.issued = 1

\* C8: the sampler returns an input of at most maxPoints points unchanged,
\* and of a longer input an order-preserving subsequence of at most
\* maxPoints points that starts with the input's first point and ends with
\* its last.
C8_SampleWithinMaxPoints ==
  (probe.kind = "sample" /\ probe.out # <<>>) =>
    LET data == probe.data
        out  == probe.out
    IN IF Len(data) <= probe.maxPoints
       THEN out = data
       ELSE /\ Len(out) <= probe.maxPoints
            /\ out[1] = data[1]
            /\ out[Len(out)] = data[Len(data)]
            /\ \A i \in 1..Len(out) : out[i] \in Range(data)
            /\ \A i \in 1..(Len(out) - 1) : out[i][1] < out[i + 1][1]

\* C9: the cache key does not depend on the order of the metric list: two
\* lists that are rearrangements of each other give, with the same start,
\* end and resolution, the same key.
C9_KeyIgnoresOrder ==
  (probe.kind = "key" /\ probe.keyA # "") =>
    /\ Len(probe.listA) = Len(probe.listB)
    /\ \A m \in ProbeNames :
         Cardinality({i \in DOMAIN probe.listA : probe.listA[i] = m})
           = Cardinality({i \in DOMAIN probe.listB : probe.listB[i] = m})
    /\ probe.keyA = probe.keyB

\* Two lists of three different names in different orders have been given
\* their keys.
C9_Witness ==
  /\ probe.kind = "key"
  /\ probe.keyA # ""
  /\ Len(probe.listA) = 3
  /\ Cardinality(Range(probe.listA)) = 3
  /\ probe.listA # probe.listB
  /\ probe.listA # Sort(probe.listA)

\* C10: after first paint the chart is never blank: the bucket that holds
\* the series applied last is drawn with opacity 1.
C10_NeverBlank ==
  mounted =>
    \/ lowResData # Null /\ LowResOpacity = 1
    \/ highResData # Null /\ HighResOpacity = 1

\* C11: at most one of the two buckets holds data: a series is held by the
\* bucket of its resolution (coarse for '1d' and '1h', fine for '1m' and
\* '30s') while the other bucket is empty, and the data of initial load,
\* reset and theme change is held by the coarse bucket only.
C11_OneBucket ==
  /\ lowResData = Null \/ highResData = Null
  /\ lowResData # Null => lowResData.step \in {"1d", "1h"}
  /\ highResData # Null =>
       highResData.step \in {"1m", "30s"} /\ highResData.src # "initial"
  /\ mounted => lowResData # Null \/ highResData # Null

\* A fetched fine series has replaced the coarse data of first paint.
C11_Witness ==
  /\ mounted
  /\ highResData # Null
  /\ highResData.src = "remote"
  /\ lowResData = Null

\* The interval of a resolution, in seconds.
IntervalSeconds(r) ==
  CASE r = "1d" -> 86400 [] r = "1h" -> 3600 [] r = "1m" -> 60 [] r = "30s" -> 30

\* ceil(d / interval), at most 10000.
ExpectedPoints(d, r) ==
  LET q    == d[1] \div IntervalSeconds(r)
      more == (d[1] % IntervalSeconds(r)) # 0 \/ d[2] # 0
      c    == IF more THEN q + 1 ELSE q
  IN IF c > 10000 THEN 10000 ELSE c

\* C12: for every window and resolution the synthesized series has exactly
\* min(ceil(duration / interval), 10000) points, so at most 10000, and at
\* least one when the duration is not zero; also for a window that starts
\* at 0.
C12_PointCount ==
  (probe.kind = "synth" /\ probe.series # Null) =>
    LET d == TSub(probe.end, probe.start) IN
    /\ probe.series.n = ExpectedPoints(d, probe.resolution)
    /\ probe.series.n <= 10000
    /\ d # Zero => probe.series.n > 0

\* C13 as the code has it: for the window of the last 2 years the fetch
\* path of getData selects '1d' and returns a series of 730 points, one
\* per day, which is below the cap of 10000.
C13_TwoYears730 ==
  (probe.kind = "pipeline" /\ probe.series # Null
     /\ TSub(probe.end, probe.start) = Ms(2 * 365 * 86400, 0)) =>
    /\ probe.resolution = "1d"
    /\ probe.series.step = "1d"
    /\ probe.series.n = 730
    /\ probe.series.n < 10000
    /\ probe.series.startTime = probe.start
    /\ probe.series.endTime = probe.end

\* C13 as stated: for the window of the last 2 years the series has exactly
\* 365 points.
C13_TwoYears365 ==
  (probe.kind = "pipeline" /\ probe.series # Null
     /\ TSub(probe.end, probe.start) = Ms(2 * 365 * 86400, 0)) =>
    /\ probe.resolution = "1d"
    /\ probe.series.n = 365

\* The window of the last 2 years has gone through the fetch path.
C13_Witness ==
  /\ probe.kind = "pipeline"
  /\ probe.series # Null
  /\ probe.end = Now0
  /\ probe.start = TSub(Now0, Ms(2 * 365 * 86400, 0))

\* C14: getInitialData returns, at whatever time it is called and within
\* the same step, a '1d' series of 365 points over [now - 365 days, now],
\* and leaves the cache and the fetches in flight as they are.
C14_InitialData ==
  [][ (lowResData' # lowResData /\ lowResData'.src = "initial") =>
        /\ lowResData'.step = "1d"
        /\ lowResData'.endTime = now
        /\ lowResData'.startTime = TSub(now, Ms(365 * 86400, 0))
        /\ lowResData'.n = 365
        /\ now' = now
        /\ cache' = cache
        /\ cacheExpiry' = cacheExpiry
        /\ pending' = pending ]_vars

\* Initial data has been produced again after time has passed, with an
\* entry in the cache.
C14_Witness ==
  /\ lowResData.src = "initial"
  /\ lowResData.endTime # Now0
  /\ lowResData.endTime = now
  /\ cache # <<>>

\* C16: a zoom event whose bounds cannot be resolved (neither batch nor
\* percentages, or percentages while the axis extent is unknown) is dropped:
\* the step that takes it sets no timer, so no getData call is issued for
\* it, and leaves the pending timer, the calls, the buckets, the active
\* resolution, the loading flag and the cache as they are.
C16_UnresolvableDropped ==
  [][ (lastZoom'.unresolved /\ ~lastZoom.unresolved) =>
        /\ debounceTimer' = debounceTimer
        /\ pending' = pending
        /\ lastReturn' = lastReturn
        /\ lowResData' = lowResData
        /\ highResData' = highResData
        /\ activeResolution' = activeResolution
        /\ loading' = loading
        /\ cache' = cache
        /\ cacheExpiry' = cacheExpiry ]_vars

\* An event without resolvable bounds has arrived while the timer of an
\* earlier event was pending and a fetch was in flight.
C16_Witness ==
  /\ lastZoom.unresolved
  /\ lastZoom.seen
  /\ debounceTimer.pending
  /\ pending # {}

\* C15: clearCache called with a start, an end, a resolution and a metric
\* list (whatever the values of start and end, 0 included) removes the entry
\* of that key if there is one and leaves every other entry as it is; only
\* clearCache without arguments removes all entries.
C15_EvictOneKey ==
  [][ (probe' # probe /\ probe'.kind = "clear") =>
        IF probe'.start # Undefined /\ probe'.end # Undefined
             /\ probe'.resolution # "" /\ probe'.listA # UndefinedList
        THEN LET k == generateCacheKey(probe'.start, probe'.end,
                                       probe'.resolution, probe'.listA)
             IN /\ DOMAIN cache' = DOMAIN cache \ {k}
                /\ DOMAIN cacheExpiry' = DOMAIN cacheExpiry \ {k}
                /\ \A j \in DOMAIN cache' :
                     cache'[j] = cache[j] /\ cacheExpiry'[j] = cacheExpiry[j]
        ELSE cache' = <<>> /\ cacheExpiry' = <<>> ]_vars

\* C18: a legend toggle does not affect fetched data: the step that changes
\* the visible metrics issues no getData call and leaves the timer, the
\* cache, the buckets and the metric list of later getData calls as they
\* are; every call is made with the component's full metric list.
C18_LegendFrame ==
  [][ /\ visibleMetrics' # visibleMetrics =>
           /\ metrics' = metrics
           /\ pending' = pending
           /\ lastReturn' = lastReturn
           /\ debounceTimer' = debounceTimer
           /\ cache' = cache
           /\ cacheExpiry' = cacheExpiry
           /\ lowResData' = lowResData
           /\ highResData' = highResData
           /\ activeResolution' = activeResolution
      /\ \A c \in pending' \ pending :
           c.names = metrics /\ Range(c.names) = {"memory", "disk"} ]_vars

\* With one metric left visible, a getData call for both metrics is in
\* flight and an earlier result is cached.
C18_Witness ==
  /\ visibleMetrics = <<"disk">>
  /\ cache # <<>>
  /\ \E c \in pending : Range(c.names) = {"memory", "disk"}

\* C20: the result of every getData call that returns is applied to the
\* display, whether or not a newer call has been issued meanwhile: the
\* bucket of its resolution holds it and the active resolution is its step.
C20_EveryResultApplied ==
  [][ (lastReturn' # lastReturn
         /\ lastReturn'.path \in {"hit", "remote", "fallback"}) =>
        /\ activeResolution' = lastReturn'.result.step
        /\ IF lastReturn'.result.step \in {"1d", "1h"}
           THEN lowResData' = lastReturn'.result /\ highResData' = Null
           ELSE highResData' = lastReturn'.result /\ lowResData' = Null
    ]_vars

\* The stale display: the call of the last zoom event has been issued and
\* has returned, nothing is outstanding, and the display holds the series
\* of an older call, which started before the timer of that event expired
\* and is for another window.
C20_Witness ==
  /\ lastZoom.seen
  /\ lastZoom.issued = 1
  /\ ~debounceTimer.pending
  /\ pending = {}
  /\ lastReturn.path = "remote"
  /\ TLess(lastReturn.now, TAdd(lastZoom.time, Ms(0, 200)))
  /\ <<lastReturn.start, lastReturn.end>>
       # <<lastZoom.calledStart, lastZoom.calledEnd>>
  /\ lowResData = lastReturn.result \/ highResData = lastReturn.result

\* C17: cache keys never collide: two requests that differ in start, end,
\* resolution or in the set of metric names have different keys.
C17_KeysDistinct ==
  (/\ probe.kind = "keys"
   /\ probe.keyA # ""
   /\ \/ probe.start # probe.startB
      \/ probe.end # probe.endB
      \/ probe.resolution # probe.resolutionB
      \/ Range(probe.listA) # Range(probe.listB)) =>
    probe.keyA # probe.keyB

\* C19: when a fetch result is stored in the cache, the entry is stamped
\* with the time at which it is stored.
C19_StampIsStoreTime ==
  [][ \A k \in DOMAIN cache' :
        (k \notin DOMAIN cache \/ cache'[k] # cache[k]) =>
          cacheExpiry'[k] = now' ]_vars

\* C21: getData leaves the metric list it is passed as it found it: in
\* every step in which a getData call starts or returns, the component's
\* metric list has the same elements in the same order before and after.
C21_MetricsOrderKept ==
  [][ (pending' # pending \/ lastReturn' # lastReturn) =>
        metrics' = metrics ]_vars

\* C22: the loading flag is true exactly when at least one getData call of
\* the component is outstanding; with two overlapping loads the completion
\* of the first leaves it true while the second is in flight.
C22_LoadingIffOutstanding == loading <=> pending # {}

\* C23: after first paint the active resolution equals the step of the
\* series held in the bucket that is not empty, whatever sequence of
\* initial load, applied getData results, zoom reset and theme change led
\* to the state.
C23_ActiveIsBucketStep ==
  mounted =>
    /\ lowResData # Null => activeResolution = lowResData.step
    /\ highResData # Null => activeResolution = highResData.step

\* The last zoom event so far asks for a window, and its bounds are
\* non-zero, as the event carries them and as timestamps.
LastEventServable ==
  /\ lastZoom.seen
  /\ ~lastZoom.unresolved
  /\ ~lastZoom.zero
  /\ lastZoom.startValue # Zero
  /\ lastZoom.endValue # Zero

\* C24: with a debounce timer that fires and fetches that complete, if zoom
\* events stop after a last event whose bounds are resolvable and non-zero,
\* then eventually a getData call for that window has been issued and its
\* result has been applied to the bucket of its resolution, and the loading
\* flag becomes false and stays false.
C24_LastWindowServed ==
  <>[]LastEventServable => <>[](probe.kind = "applied" /\ ~loading)

\* A zoom event with non-zero bounds that arrived after time had passed
\* was the last: its window has been fetched, the series is on display in
\* the fine bucket, and no timer or call is outstanding.
C24_Witness ==
  /\ LastEventServable
  /\ probe.kind = "applied"
  /\ lastZoom.time # Now0
  /\ lastReturn.path = "remote"
  /\ lastReturn.start = lastZoom.startValue
  /\ highResData = lastReturn.result
  /\ pending = {}
  /\ ~debounceTimer.pending
  /\ ~loading

====
